---- MODULE Spec2Model ----
(***************************************************************************)
(* The layered DAG layout of src/bin/petgraph.rs:                          *)
(*   layered_dag_layout = assign_layers ; order_nodes_within_layers ;      *)
(*                        assign_coordinates (with adjust_positions).      *)
(* A graph is a record [n, edges]: the nodes are the NodeIndex values      *)
(* 0 .. n-1 and edges is a set of <<source, target>> pairs (no parallel    *)
(* edges; self-loops and cycles are allowed, as DiGraph allows them).      *)
(* HashMaps are functions whose domain is the set of keys present.         *)
(* Coordinates are f64 in the source; here they are integers counting      *)
(* tenths of a unit, which represents every value the code computes        *)
(* (multiples of 0.1) exactly.                                             *)
(***************************************************************************)
EXTENDS Integers, Sequences, FiniteSets, TLC

\* ------------------------------------------------------------------ bounds
MaxNodes == 3
MaxEdges == 3

\* --------------------------------------------------------------- constants
horizontal_spacing == 180
vertical_spacing == 150
node_width == 180
node_height == 60
\* usize::MAX, the sentinel of assign_layers, stands as the largest integer
\* of the checker; no rank of a bounded graph comes near either value.
USIZE_MAX == 2147483647
\* The nudge of adjust_positions is a multiple of 0.1: coordinates count
\* tenths, ten to one unit of the source.
TenthsPerUnit == 10

\* ------------------------------------------------------------------ inputs
NodeIndices(g) == 0 .. (g.n - 1)

RECURSIVE SubsetsUpTo(_, _)
SubsetsUpTo(S, k) ==
    IF k = 0 THEN {{}}
    ELSE LET prev == SubsetsUpTo(S, k - 1)
         IN  prev \cup {T \cup {x} : T \in prev, x \in S}

BoundedGraphs ==
    UNION {{[n |-> k, edges |-> E] :
                E \in SubsetsUpTo((0 .. (k - 1)) \X (0 .. (k - 1)), MaxEdges)} :
           k \in 0 .. MaxNodes}

\* The diamond A->B, A->C, B->D, C->D with A, B, C, D = 0, 1, 2, 3.
Diamond == [n |-> 4, edges |-> {<<0, 1>>, <<0, 2>>, <<1, 3>>, <<2, 3>>}]
\* Two disjoint chains A->B, C->D.
TwoChains == [n |-> 4, edges |-> {<<0, 1>>, <<2, 3>>}]
\* A chain with a shortcut edge over two ranks.
Shortcut == [n |-> 3, edges |-> {<<0, 1>>, <<1, 2>>, <<0, 2>>}]
\* A source leading into a 2-cycle with a node behind it.
CycleBehindSource == [n |-> 4, edges |-> {<<0, 1>>, <<1, 2>>, <<2, 1>>, <<2, 3>>}]

\* Two sources, one of them with its only edge reaching two ranks down:
\* 0->2->3 and 1->3.
LongEdge == [n |-> 4, edges |-> {<<0, 2>>, <<2, 3>>, <<1, 3>>}]

\* Three ranks of two nodes each, the edges between ranks 0 and 1 crossed:
\* 0->3, 1->2, then 2->4, 3->5.
Ladder == [n |-> 6, edges |-> {<<0, 3>>, <<1, 2>>, <<2, 4>>, <<3, 5>>}]

\* Three sources, one of them with an edge to the only node of rank 1.
LoneEdge == [n |-> 4, edges |-> {<<0, 3>>}]

\* Ranks {0, 1}, {2, 3}, {4, 5, 6} drawn without a crossing, and one edge
\* 0->6 from rank 0 to the far end of rank 2.
FarSuccessor ==
    [n |-> 7,
     edges |-> {<<0, 2>>, <<1, 2>>, <<1, 3>>, <<0, 6>>, <<2, 4>>, <<2, 5>>,
                <<3, 6>>}]

Scenarios ==
    {Diamond, TwoChains, Shortcut, CycleBehindSource, LongEdge, Ladder,
     LoneEdge, FarSuccessor}

Graphs == BoundedGraphs \cup Scenarios

\* ----------------------------------------------------------- graph queries
\* graph.neighbors_directed(node, Direction::Incoming)
Incoming(g, node) == {e[1] : e \in {d \in g.edges : d[2] = node}}
\* graph.neighbors_directed(node, Direction::Outgoing)
Outgoing(g, node) == {e[2] : e \in {d \in g.edges : d[1] = node}}

Max(S) == CHOOSE x \in S : \A y \in S : y <= x
Min(S) == CHOOSE x \in S : \A y \in S : x <= y

VARIABLES graph, pc, node_ranks, tovisit, ordered, nodes_by_rank, grouped,
          iter, rank_idx, is_horizontal, layout

\* sugiyama.rs, build_supply_chain_layout: its arguments nodes, edges and
\* orientation, the graph it assembles, its two results and the place it has
\* reached.
VARIABLES tech_nodes, tech_edges, orientation, supply_graph, updated_nodes,
          updated_edges, route_pc

\* sugiyama.rs, calculate_node_border_intersection: its arguments, its
\* result and the place it has reached.
VARIABLES border_args, border_point, border_pc

layout_vars == <<graph, pc, node_ranks, tovisit, ordered, nodes_by_rank,
                 grouped, iter, rank_idx, is_horizontal, layout>>
route_vars == <<tech_nodes, tech_edges, orientation, supply_graph, updated_nodes,
                updated_edges, route_pc>>
border_vars == <<border_args, border_point, border_pc>>

vars == <<layout_vars, route_vars, border_vars>>

EmptyMap == [x \in {} |-> 0]

\* Option: None, and Some(v) holding v.
None == <<>>
Some(v) == <<v>>
Unwrap(o) == o[1]

\* The state of each of the three programs while another one runs.
LayoutIdle ==
    /\ graph = [n |-> 0, edges |-> {}]
    /\ pc = "idle"
    /\ node_ranks = EmptyMap
    /\ tovisit = {}
    /\ ordered = {}
    /\ nodes_by_rank = EmptyMap
    /\ grouped = EmptyMap
    /\ iter = 0
    /\ rank_idx = 0
    /\ is_horizontal = TRUE
    /\ layout = EmptyMap
RouteIdle ==
    /\ tech_nodes = <<>>
    /\ tech_edges = <<>>
    /\ orientation = "LeftRight"
    /\ supply_graph = {}
    /\ updated_nodes = <<>>
    /\ updated_edges = <<>>
    /\ route_pc = "idle"
BorderIdle ==
    /\ border_args = None
    /\ border_point = None
    /\ border_pc = "idle"

Init ==
    /\ RouteIdle
    /\ BorderIdle
    /\ graph \in Graphs
    /\ pc = "assign_layers"
    /\ node_ranks = EmptyMap
    /\ tovisit = {}
    /\ ordered = {}
    /\ nodes_by_rank = EmptyMap
    /\ grouped = EmptyMap
    /\ iter = 0
    /\ rank_idx = 0
    /\ is_horizontal = TRUE
    /\ layout = EmptyMap

\* ------------------------------------------------------------ assign_layers
\* Lines 34-41: the nodes without incoming edges, each inserted at rank 0.
SourceRank == 0
Sources(g) == {node \in NodeIndices(g) : Cardinality(Incoming(g, node)) = 0}

\* Lines 32-44: the source scan, then Topo::new(graph), whose work list
\* starts with the nodes that have no incoming edge.
AssignLayersStart ==
    /\ pc = "assign_layers"
    /\ node_ranks' = [node \in Sources(graph) |-> SourceRank]
    /\ tovisit' = Sources(graph)
    /\ ordered' = {}
    /\ pc' = "topo"
    /\ UNCHANGED <<route_vars, border_vars>>
    /\ UNCHANGED <<graph, nodes_by_rank, grouped, iter, rank_idx,
                   is_horizontal, layout>>

\* A neighbour pushed as soon as one node with an edge into it is visited.
TopoReadyAny(g, neigh, visited) == \E b \in Incoming(g, neigh) : b \in visited

\* A neighbour pushed once its predecessor of least index is visited.
TopoReadyLeast(g, neigh, visited) == Min(Incoming(g, neigh)) \in visited

\* Topo::next pushes a neighbour once every node with an edge into it has
\* been visited.
TopoReady(g, neigh, visited) == \A b \in Incoming(g, neigh) : b \in visited

\* Topo::next: the work list after node has been popped and visited.
TopoPush(g, work, visited, node) ==
    (work \ {node}) \cup
    {neigh \in Outgoing(g, node) : TopoReady(g, neigh, visited \cup {node})}

\* Lines 52-58: max over the predecessors of (rank of pred, or 0) + 1.
PredRank(ranks, pred) == IF pred \in DOMAIN ranks THEN ranks[pred] ELSE 0
\* The step of 1 left out: the largest rank of a predecessor.
MaxPredRankNoStep(g, ranks, node) ==
    Max({0} \cup {PredRank(ranks, pred) : pred \in Incoming(g, node)})

\* A step of 2: two more than the largest rank of a predecessor.
MaxPredRankTwoSteps(g, ranks, node) ==
    Max({0} \cup {PredRank(ranks, pred) + 2 : pred \in Incoming(g, node)})

\* min in place of max: one more than the smallest rank of a predecessor.
MaxPredRankMin(g, ranks, node) ==
    Min({PredRank(ranks, pred) + 1 : pred \in Incoming(g, node)})

\* One more than the largest rank given out so far, whether to a
\* predecessor or not.
MaxPredRankOfAll(g, ranks, node) ==
    Max({0} \cup {ranks[m] + 1 : m \in DOMAIN ranks})

MaxPredRank(g, ranks, node) ==
    Max({0} \cup {PredRank(ranks, pred) + 1 : pred \in Incoming(g, node)})

\* Lines 46-66: the body of the while loop for one node.
RankNode(g, ranks, node) ==
    IF node \in DOMAIN ranks THEN ranks
    ELSE LET r == IF Incoming(g, node) # {} THEN MaxPredRank(g, ranks, node)
                  ELSE 0
         IN  [m \in DOMAIN ranks \cup {node} |->
                 IF m = node THEN r ELSE ranks[m]]

\* Line 45 with lines 46-67: one turn of `while let Some(node) = topo.next()`.
\* Topo pops an unvisited node of its work list; which one it pops depends
\* on the order the edges were added in, so any ready node may come next.
TopoNext(node) ==
    /\ pc = "topo"
    /\ node \in tovisit \ ordered
    /\ ordered' = ordered \cup {node}
    /\ tovisit' = TopoPush(graph, tovisit, ordered, node)
    /\ node_ranks' = RankNode(graph, node_ranks, node)
    /\ UNCHANGED <<route_vars, border_vars>>
    /\ UNCHANGED <<graph, pc, nodes_by_rank, grouped, iter, rank_idx,
                   is_horizontal, layout>>

\* Lines 69-76: a rank equal to usize::MAX becomes max_rank + 1.
PatchSentinel(ranks) ==
    LET max_rank == IF DOMAIN ranks = {} THEN 0
                    ELSE Max({ranks[m] : m \in DOMAIN ranks})
    IN  [m \in DOMAIN ranks |->
            IF ranks[m] = USIZE_MAX THEN max_rank + 1 ELSE ranks[m]]

\* Ranks normalized to start from 1.
NormalizeFromOne(ranks) ==
    LET min_rank == IF DOMAIN ranks = {} THEN 0
                    ELSE Min({ranks[m] : m \in DOMAIN ranks})
    IN  [m \in DOMAIN ranks |-> ranks[m] - min_rank + 1]

\* Lines 78-84: subtract the minimum rank when it is positive.
Normalize(ranks) ==
    LET min_rank == IF DOMAIN ranks = {} THEN 0
                    ELSE Min({ranks[m] : m \in DOMAIN ranks})
    IN  IF min_rank > 0 THEN [m \in DOMAIN ranks |-> ranks[m] - min_rank]
        ELSE ranks

\* Lines 45, 69-87: topo.next() returns None, the ranks are patched and
\* normalized, and assign_layers returns the map to layered_dag_layout.
AssignLayersReturn ==
    /\ pc = "topo"
    /\ tovisit \ ordered = {}
    /\ node_ranks' = Normalize(PatchSentinel(node_ranks))
    /\ pc' = "order_nodes_within_layers"
    /\ UNCHANGED <<route_vars, border_vars>>
    /\ UNCHANGED <<graph, tovisit, ordered, nodes_by_rank, grouped, iter,
                   rank_idx, is_horizontal, layout>>

\* ------------------------------------------------ order_nodes_within_layers
\* The orders a HashMap over the key set S may be enumerated in.
RECURSIVE Enumerations(_)
Enumerations(S) ==
    IF S = {} THEN {<<>>}
    ELSE UNION {{<<x>> \o rest : rest \in Enumerations(S \ {x})} : x \in S}

\* Lines 94-99: every (node, rank) of the rank map, in the map's enumeration
\* order, is pushed onto the vector of its rank.
GroupNodes(ranks, enum) ==
    [r \in {ranks[m] : m \in DOMAIN ranks} |->
        SelectSeq(enum, LAMBDA node : ranks[node] = r)]

\* Line 102: nodes_by_rank.keys().max().cloned().unwrap_or(0)
MaxRank(layers) == IF DOMAIN layers = {} THEN 0 ELSE Max(DOMAIN layers)

\* Lines 94-102 and the entry into the first pass (iter = 0, first rank).
GroupByRank(enum) ==
    /\ pc = "order_nodes_within_layers"
    /\ nodes_by_rank' = GroupNodes(node_ranks, enum)
    /\ grouped' = GroupNodes(node_ranks, enum)
    /\ iter' = 0
    /\ rank_idx' = 0
    /\ pc' = "reorder"
    /\ UNCHANGED <<route_vars, border_vars>>
    /\ UNCHANGED <<graph, node_ranks, tovisit, ordered, is_horizontal, layout>>

\* Both passes ascending.
RankAtAscending(it, idx, max_rank) == idx

\* Lines 107-111: the rank at place idx of rank_range, ascending in the
\* first pass and descending in the second.
RankAt(it, idx, max_rank) == IF it = 0 THEN idx ELSE max_rank - idx

\* iter().position(|&n| n == node): the first index, counted from 0.
Position(nodes, node) ==
    Min({i \in 1 .. Len(nodes) : nodes[i] = node}) - 1
Contains(nodes, node) == \E i \in 1 .. Len(nodes) : nodes[i] = node

\* Lines 134-158: predecessors of smaller rank in the first pass, successors
\* of larger rank in the second.
ConnectedNodes(g, ranks, node, it) ==
    IF it = 0
    THEN {pred \in Incoming(g, node) :
              pred \in DOMAIN ranks /\ ranks[pred] < ranks[node]}
    ELSE {succ \in Outgoing(g, node) :
              succ \in DOMAIN ranks /\ ranks[succ] > ranks[node]}

RECURSIVE SumPositions(_, _, _)
SumPositions(ranks, copy, S) ==
    IF S = {} THEN 0
    ELSE LET c == CHOOSE x \in S : TRUE
         IN  Position(copy[ranks[c]], c) + SumPositions(ranks, copy, S \ {c})

\* Lines 161-171: the connected nodes whose position is found in the copy
\* of the layers, each adding its position to sum_pos and 1 to count.
CountedNodes(g, ranks, copy, node, it) ==
    {c \in ConnectedNodes(g, ranks, node, it) :
         /\ c \in DOMAIN ranks
         /\ ranks[c] \in DOMAIN copy
         /\ Contains(copy[ranks[c]], c)}

\* The barycenter with 0 as the value of a node without counted neighbour.
BarycenterFromZero(g, ranks, copy, current_nodes, node, it) ==
    LET counted == CountedNodes(g, ranks, copy, node, it)
        count == Cardinality(counted)
    IN  IF count > 0 THEN <<SumPositions(ranks, copy, counted), count>>
        ELSE <<0, 1>>

\* Lines 130-180: the barycenter of node, the fraction sum_pos / count kept
\* as the pair <<sum_pos, count>>; with no counted neighbour, the node's own
\* index in current_nodes (over 1).
Barycenter(g, ranks, copy, current_nodes, node, it) ==
    LET counted == CountedNodes(g, ranks, copy, node, it)
        count == Cardinality(counted)
    IN  IF count > 0 THEN <<SumPositions(ranks, copy, counted), count>>
        ELSE <<Position(current_nodes, node), 1>>

\* a.1.partial_cmp(&b.1) == Less, on the fractions
BaryLess(a, b) == a[1] * b[2] < b[1] * a[2]

\* An unstable sort: an entry goes in front of the entries equal to it.
RECURSIVE InsertSortedBeforeTies(_, _)
InsertSortedBeforeTies(sorted, entry) ==
    IF sorted = <<>> THEN <<entry>>
    ELSE LET last == sorted[Len(sorted)]
         IN  IF ~BaryLess(last[2], entry[2])
             THEN Append(InsertSortedBeforeTies(
                             SubSeq(sorted, 1, Len(sorted) - 1), entry),
                         last)
             ELSE Append(sorted, entry)

\* A sort that keeps one entry per barycenter: an entry equal to one already
\* placed is dropped.
RECURSIVE InsertSortedDedup(_, _)
InsertSortedDedup(sorted, entry) ==
    IF sorted = <<>> THEN <<entry>>
    ELSE LET last == sorted[Len(sorted)]
         IN  IF BaryLess(entry[2], last[2])
             THEN Append(InsertSortedDedup(
                             SubSeq(sorted, 1, Len(sorted) - 1), entry),
                         last)
             ELSE IF BaryLess(last[2], entry[2]) THEN Append(sorted, entry)
             ELSE sorted

\* Lines 186-188: sort_by is a stable sort: an entry goes behind every
\* entry that is not greater than it.
RECURSIVE InsertSorted(_, _)
InsertSorted(sorted, entry) ==
    IF sorted = <<>> THEN <<entry>>
    ELSE LET last == sorted[Len(sorted)]
         IN  IF BaryLess(entry[2], last[2])
             THEN Append(InsertSorted(SubSeq(sorted, 1, Len(sorted) - 1), entry),
                         last)
             ELSE Append(sorted, entry)

RECURSIVE SortByBarycenter(_)
SortByBarycenter(entries) ==
    IF entries = <<>> THEN <<>>
    ELSE InsertSorted(SortByBarycenter(SubSeq(entries, 1, Len(entries) - 1)),
                      entries[Len(entries)])

\* Lines 127-183: node_barycenters, one (node, barycenter) per node of the
\* rank, in the rank's current order.
NodeBarycenters(g, ranks, copy, current_nodes, it) ==
    [i \in 1 .. Len(current_nodes) |->
        <<current_nodes[i],
          Barycenter(g, ranks, copy, current_nodes, current_nodes[i], it)>>]

\* The positions read off the layers turned back to front instead of off
\* the copy made before the rank is sorted.
ReorderedLayersOtherCopy(g, ranks, layers, it, rank) ==
    IF rank \notin DOMAIN layers THEN layers
    ELSE IF Len(layers[rank]) <= 1 THEN layers
    ELSE LET other == [r \in DOMAIN layers |->
                          [i \in 1 .. Len(layers[r]) |->
                              layers[r][Len(layers[r]) + 1 - i]]]
             sorted == SortByBarycenter(
                           NodeBarycenters(g, ranks, other, layers[rank], it))
         IN  [layers EXCEPT ![rank] = [i \in 1 .. Len(sorted) |-> sorted[i][1]]]

\* Lines 115-192: the body of `for rank in rank_range` for one rank: the
\* layers after the rank has been sorted by barycenter, read off a copy of
\* the layers made before.
ReorderedLayers(g, ranks, layers, it, rank) ==
    IF rank \notin DOMAIN layers THEN layers
    ELSE IF Len(layers[rank]) <= 1 THEN layers
    ELSE LET sorted == SortByBarycenter(
                           NodeBarycenters(g, ranks, layers, layers[rank], it))
         IN  [layers EXCEPT ![rank] = [i \in 1 .. Len(sorted) |-> sorted[i][1]]]

\* Lines 106-196: one turn of the inner loop, then on to the next rank, the
\* next pass, or the return of nodes_by_rank.
ReorderRank ==
    /\ pc = "reorder"
    /\ nodes_by_rank' =
           ReorderedLayers(graph, node_ranks, nodes_by_rank, iter,
                           RankAt(iter, rank_idx, MaxRank(nodes_by_rank)))
    /\ IF rank_idx < MaxRank(nodes_by_rank)
       THEN /\ rank_idx' = rank_idx + 1
            /\ UNCHANGED <<iter, pc>>
       ELSE /\ rank_idx' = 0
            /\ iter' = iter + 1
            /\ pc' = IF iter = 0 THEN "reorder" ELSE "assign_coordinates"
    /\ UNCHANGED <<route_vars, border_vars>>
    /\ UNCHANGED <<graph, node_ranks, tovisit, ordered, grouped,
                   is_horizontal, layout>>

\* ------------------------------------------------------- assign_coordinates
\* The extent taken as node_count * (node_width + horizontal_spacing), the
\* spacing behind the last node not taken off.
StartXWithTrailingGap(node_count) ==
    LET total_width == node_count * (node_width + horizontal_spacing)
    IN  -((total_width * TenthsPerUnit) \div 2)

\* Lines 217-219, in tenths: the layer's start offset, -total_width / 2.0.
StartX(node_count) ==
    LET total_width == node_count * (node_width + horizontal_spacing)
                       - horizontal_spacing
    IN  -((total_width * TenthsPerUnit) \div 2)

\* Lines 221-245, in tenths: the NodeLayout of the node at index i (from 0)
\* of the layer of the given rank with node_count nodes.
NodeLayout(horizontal, rank, node_count, i) ==
    LET within == StartX(node_count)
                  + TenthsPerUnit * (i * (node_width + horizontal_spacing))
                  + (TenthsPerUnit * node_width) \div 2
    IN  IF horizontal
        THEN [x |-> TenthsPerUnit * (rank * (node_width + vertical_spacing)),
              y |-> within,
              width |-> TenthsPerUnit * node_width,
              height |-> TenthsPerUnit * node_height]
        ELSE [x |-> within,
              y |-> TenthsPerUnit * (rank * (node_height + vertical_spacing)),
              width |-> TenthsPerUnit * node_width,
              height |-> TenthsPerUnit * node_height]

\* Lines 255-272: every node's x grows by (node.index() % 5) * 0.1.
NudgeModulus == 5
adjust_positions(lay) ==
    [node \in DOMAIN lay |->
        [lay[node] EXCEPT !.x = @ + (node % NudgeModulus)]]

\* Lines 204-246: the layout before the nudge: every node of every layer.
PlacedNodes(layers) ==
    UNION {{layers[r][i] : i \in 1 .. Len(layers[r])} : r \in DOMAIN layers}
LayerOf(layers, node) ==
    CHOOSE r \in DOMAIN layers : Contains(layers[r], node)
PlaceNodes(horizontal, layers) ==
    [node \in PlacedNodes(layers) |->
        LET r == LayerOf(layers, node)
        IN  NodeLayout(horizontal, r, Len(layers[r]),
                       Position(layers[r], node))]

\* Lines 200-246: assign_coordinates up to its call of adjust_positions. The
\* source fixes is_horizontal to true (line 213) and keeps the branch of the
\* other orientation; the orientation is an input here so that both are
\* taken.
AssignCoordinates(horizontal) ==
    /\ pc = "assign_coordinates"
    /\ is_horizontal' = horizontal
    /\ layout' = PlaceNodes(horizontal, nodes_by_rank)
    /\ pc' = "adjust_positions"
    /\ UNCHANGED <<route_vars, border_vars>>
    /\ UNCHANGED <<graph, node_ranks, tovisit, ordered, nodes_by_rank,
                   grouped, iter, rank_idx>>

\* Lines 248-251 with 255-272: the call of adjust_positions, the return of
\* assign_coordinates and that of layered_dag_layout (line 27).
AdjustPositions ==
    /\ pc = "adjust_positions"
    /\ layout' = adjust_positions(layout)
    /\ pc' = "done"
    /\ UNCHANGED <<route_vars, border_vars>>
    /\ UNCHANGED <<graph, node_ranks, tovisit, ordered, nodes_by_rank,
                   grouped, iter, rank_idx, is_horizontal>>

\* ----------------------------------------------- the stages as functions
\* Lines 43-67 as one run: the while loop to its end, taking the ready node
\* of least index at every turn.
RECURSIVE TopoRun(_, _, _, _)
TopoRun(g, ranks, work, visited) ==
    IF work \ visited = {} THEN ranks
    ELSE LET node == Min(work \ visited)
         IN  TopoRun(g, RankNode(g, ranks, node),
                     TopoPush(g, work, visited, node), visited \cup {node})

\* Lines 31-87: assign_layers(graph).
assign_layers(g) ==
    Normalize(PatchSentinel(
        TopoRun(g, [node \in Sources(g) |-> SourceRank], Sources(g), {})))

\* Lines 106-194: both passes from (it, idx) on, one rank after the other.
RECURSIVE Sweep(_, _, _, _, _)
Sweep(g, ranks, layers, it, idx) ==
    LET new == ReorderedLayers(g, ranks, layers, it,
                               RankAt(it, idx, MaxRank(layers)))
    IN  IF idx < MaxRank(layers) THEN Sweep(g, ranks, new, it, idx + 1)
        ELSE IF it = 0 THEN Sweep(g, ranks, new, 1, 0)
        ELSE new

\* Lines 90-197: order_nodes_within_layers(graph, node_ranks), the rank map
\* enumerated in the order enum.
order_nodes_within_layers(g, ranks, enum) ==
    Sweep(g, ranks, GroupNodes(ranks, enum), 0, 0)

Next ==
    \/ AssignLayersStart
    \/ \E node \in NodeIndices(graph) : TopoNext(node)
    \/ AssignLayersReturn
    \/ /\ pc = "order_nodes_within_layers"
       /\ \E enum \in Enumerations(DOMAIN node_ranks) : GroupByRank(enum)
    \/ ReorderRank
    \/ \E horizontal \in BOOLEAN : AssignCoordinates(horizontal)
    \/ AdjustPositions

Spec == Init /\ [][Next]_vars

\* layered_dag_layout is straight-line sequential code: a step that can be
\* taken is taken.  ReorderRank is enabled exactly when pc = "reorder" (it has
\* no other guard and always moves rank_idx, iter or pc), so its weak fairness
\* is written out with that condition in place of ENABLED.
Fairness ==
    /\ WF_vars(AssignLayersStart)
    /\ WF_vars(\E node \in NodeIndices(graph) : TopoNext(node))
    /\ WF_vars(AssignLayersReturn)
    /\ WF_vars(/\ pc = "order_nodes_within_layers"
               /\ \E enum \in Enumerations(DOMAIN node_ranks) :
                      GroupByRank(enum))
    /\ ([]<>(pc # "reorder") \/ []<><<ReorderRank>>_vars)
    /\ WF_vars(\E horizontal \in BOOLEAN : AssignCoordinates(horizontal))
    /\ WF_vars(AdjustPositions)

SpecLive == Init /\ [][Next]_vars /\ Fairness

\* ------------------------------------------------------------------ claims
\* The nodes reachable from the set S along edges.
RECURSIVE ReachableFrom(_, _)
ReachableFrom(g, S) ==
    LET next == S \cup UNION {Outgoing(g, v) : v \in S}
    IN  IF next = S THEN S ELSE ReachableFrom(g, next)

\* No node reaches itself: the graph is a DAG (a self-loop is a cycle).
IsAcyclic(g) ==
    \A v \in NodeIndices(g) : v \notin ReachableFrom(g, Outgoing(g, v))

\* The number of edges on the longest path ending at v, in a DAG.
RECURSIVE LongestPathTo(_, _)
LongestPathTo(g, v) ==
    IF Incoming(g, v) = {} THEN 0
    ELSE 1 + Max({LongestPathTo(g, u) : u \in Incoming(g, v)})

\* assign_layers has returned its rank map to layered_dag_layout.
AssignLayersReturned ==
    pc \in {"order_nodes_within_layers", "reorder", "assign_coordinates",
            "adjust_positions", "done"}

\* The layers exist: order_nodes_within_layers has grouped the nodes.
LayersBuilt ==
    pc \in {"reorder", "assign_coordinates", "adjust_positions", "done"}

\* C1: for an acyclic graph, the rank map assign_layers returns holds both
\* ends of every edge u->v and rank(v) > rank(u).
C1_RankIncreasesAlongEdges ==
    (AssignLayersReturned /\ IsAcyclic(graph)) =>
        \A e \in graph.edges :
            /\ e[1] \in DOMAIN node_ranks
            /\ e[2] \in DOMAIN node_ranks
            /\ node_ranks[e[2]] >= node_ranks[e[1]] + 1

\* assign_layers has returned for the chain with a shortcut, whose edge 0->2
\* spans two ranks.
C1_Witness ==
    /\ pc = "order_nodes_within_layers"
    /\ graph = Shortcut
    /\ node_ranks[2] > node_ranks[0]

\* C2: assign_layers returns a rank map only when the topological traversal
\* has visited every node; on a graph with a cycle it returns none (it fails
\* with CycleDetected instead).
C2_CycleNeverReturnsRankMap ==
    pc = "order_nodes_within_layers" => ordered = NodeIndices(graph)

\* C3: a coordinate map returned by layered_dag_layout covers every node of
\* the graph, each with a rank and a place in a layer; there is no partial
\* result.
C3_NoPartialLayout ==
    pc = "done" =>
        /\ DOMAIN layout = NodeIndices(graph)
        /\ DOMAIN node_ranks = NodeIndices(graph)
        /\ PlacedNodes(nodes_by_rank) = NodeIndices(graph)

\* C4: for an acyclic graph every node is ranked; a node without incoming
\* edge has rank 0, any other node 1 + the largest rank of its predecessors,
\* which is the number of edges on the longest path ending at the node; the
\* diamond gets A:0, B:1, C:1, D:2.
C4_LongestPathRanks ==
    (AssignLayersReturned /\ IsAcyclic(graph)) =>
        /\ DOMAIN node_ranks = NodeIndices(graph)
        /\ \A v \in NodeIndices(graph) :
               /\ Incoming(graph, v) = {} => node_ranks[v] = 0
               /\ Incoming(graph, v) # {} =>
                      node_ranks[v] =
                          1 + Max({node_ranks[u] : u \in Incoming(graph, v)})
               /\ node_ranks[v] = LongestPathTo(graph, v)
        /\ graph = Diamond =>
               node_ranks = (0 :> 0 @@ 1 :> 1 @@ 2 :> 1 @@ 3 :> 2)

\* assign_layers has returned for the diamond, D two ranks below A.
C4_Witness ==
    /\ pc = "order_nodes_within_layers"
    /\ graph = Diamond
    /\ node_ranks[3] = 2

\* C5: for a non-empty acyclic graph the smallest rank assign_layers
\* returns is 0.
C5_MinRankZero ==
    (AssignLayersReturned /\ IsAcyclic(graph) /\ graph.n > 0) =>
        /\ DOMAIN node_ranks # {}
        /\ Min({node_ranks[m] : m \in DOMAIN node_ranks}) = 0

\* assign_layers has returned for a non-empty acyclic graph with two ranks
\* or more.
C5_Witness ==
    /\ pc = "order_nodes_within_layers"
    /\ IsAcyclic(graph)
    /\ graph.n > 0
    /\ \E m \in DOMAIN node_ranks : node_ranks[m] > 0

\* C6: from the grouping on, after every rank reordering of both passes and
\* in the result, there is one layer per rank of the rank map and the layer
\* of rank r holds exactly the nodes of rank r, each once.
C6_LayersKeepRankNodes ==
    LayersBuilt =>
        /\ DOMAIN nodes_by_rank = {node_ranks[m] : m \in DOMAIN node_ranks}
        /\ \A r \in DOMAIN nodes_by_rank :
               /\ {nodes_by_rank[r][i] : i \in 1 .. Len(nodes_by_rank[r])}
                      = {m \in DOMAIN node_ranks : node_ranks[m] = r}
               /\ Len(nodes_by_rank[r])
                      = Cardinality({m \in DOMAIN node_ranks : node_ranks[m] = r})

\* Both passes are over and a reordering has changed the order of a layer.
C6_Witness ==
    /\ pc = "assign_coordinates"
    /\ nodes_by_rank # grouped

\* C7: the layer orderings order_nodes_within_layers returns are the same for
\* every order the rank map may be enumerated in while the nodes are
\* grouped: a run that enumerates it in any other order returns the
\* orderings this run returns.
C7_EnumerationIndependent ==
    pc = "assign_coordinates" =>
        \A enum \in Enumerations(DOMAIN node_ranks) :
            order_nodes_within_layers(graph, node_ranks, enum) = nodes_by_rank

\* C8: a second run of assign_layers and order_nodes_within_layers on the
\* same graph, whatever order its traversal visits the ready nodes in and
\* whatever enumeration gives it the same initial order within every rank,
\* returns the rank map and the layer orderings of this run.
C8_RerunIdentical ==
    pc = "assign_coordinates" =>
        LET ranks == assign_layers(graph)
        IN  /\ node_ranks = ranks
            /\ \A enum \in Enumerations(DOMAIN ranks) :
                   GroupNodes(ranks, enum) = grouped =>
                       order_nodes_within_layers(graph, ranks, enum)
                           = nodes_by_rank

\* Both stages are over for the diamond, which the traversal can walk in two
\* orders (B before C, C before B), from the initial order C, B in rank 1.
C8_Witness ==
    /\ pc = "assign_coordinates"
    /\ graph = Diamond
    /\ grouped[1] = <<2, 1>>
    /\ ordered = NodeIndices(graph)

\* Two barycenters are the same fraction.
BaryEqual(a, b) == ~BaryLess(a, b) /\ ~BaryLess(b, a)

\* C9: every rank reordering leaves the rank sorted by barycenter ascending,
\* two nodes of equal barycenter in the order they had before; and in the
\* diamond B and C end, after both passes, in their initial order.
C9_StableBarycenterSort ==
    [][pc = "reorder" =>
        LET rank == RankAt(iter, rank_idx, MaxRank(nodes_by_rank))
        IN  /\ rank \in DOMAIN nodes_by_rank =>
                LET old == nodes_by_rank[rank]
                    new == nodes_by_rank'[rank]
                    bary(node) == Barycenter(graph, node_ranks, nodes_by_rank,
                                             old, node, iter)
                IN  \A i, j \in 1 .. Len(new) :
                        i < j =>
                            /\ ~BaryLess(bary(new[j]), bary(new[i]))
                            /\ BaryEqual(bary(new[i]), bary(new[j])) =>
                                   Position(old, new[i]) < Position(old, new[j])
            /\ (graph = Diamond /\ pc' = "assign_coordinates") =>
                   nodes_by_rank'[1] = grouped[1]
      ]_vars

\* Both passes are over for the diamond started with C before B: rank 1 was
\* sorted twice, B and C tied both times, and C is still first.
C9_Witness ==
    /\ pc = "assign_coordinates"
    /\ graph = Diamond
    /\ grouped[1] = <<2, 1>>
    /\ nodes_by_rank[1] = <<2, 1>>

\* The coordinate of a node along the axis its rank is laid out on: y under
\* LeftRight, x under TopDown.
WithinRank(node) == IF is_horizontal THEN layout[node].y ELSE layout[node].x

RankAxis(node) == IF is_horizontal THEN layout[node].x ELSE layout[node].y

\* The distance between two ranks: size + spacing along the rank axis.
RankStep ==
    IF is_horizontal THEN node_width + vertical_spacing
    ELSE node_height + vertical_spacing

\* C11: in the coordinate map assign_coordinates returns, every node's
\* rank-axis coordinate (x under LeftRight, y under TopDown) is
\* rank * (size + spacing), the same for all nodes of a rank.
C11_RankAxisCoordinate ==
    pc = "done" =>
        \A r \in DOMAIN nodes_by_rank :
            \A i \in 1 .. Len(nodes_by_rank[r]) :
                RankAxis(nodes_by_rank[r][i]) = TenthsPerUnit * (r * RankStep)

\* C12: every layer is centred: with n nodes and extent
\* n * (size + spacing) - spacing, the node at index i is placed at
\* -extent/2 + i * (size + spacing) + size/2 along the within-rank axis, the
\* nodes at i and n-1-i are placed at opposite coordinates, and a single
\* node at 0. Stated of what assign_coordinates places (lines 216-246, under
\* both orientations) and of the returned layout under LeftRight.
C12_LayerCentred ==
    (pc = "adjust_positions" \/ (pc = "done" /\ is_horizontal)) =>
        \A r \in DOMAIN nodes_by_rank :
            LET n == Len(nodes_by_rank[r])
                step == node_width + horizontal_spacing
                extent == n * step - horizontal_spacing
                at(i) == WithinRank(nodes_by_rank[r][i + 1])
            IN  /\ \A i \in 0 .. (n - 1) :
                       /\ 2 * at(i) =
                              TenthsPerUnit * (2 * i * step + node_width - extent)
                       /\ at(i) + at(n - 1 - i) = 0
                /\ n = 1 => at(0) = 0

\* assign_coordinates has placed a layer of three nodes under TopDown.
C12_Witness ==
    /\ pc = "adjust_positions"
    /\ ~is_horizontal
    /\ \E r \in DOMAIN nodes_by_rank : Len(nodes_by_rank[r]) = 3

\* The sets of nodes no edge leaves or enters: the unions of components.
ClosedNodeSets(g) ==
    {C \in SUBSET NodeIndices(g) :
         /\ C # {}
         /\ \A e \in g.edges : e[1] \in C <=> e[2] \in C}

\* The graph of a closed node set on its own, its nodes numbered from 0 in
\* the order of their indices.
IndexIn(C, v) == Cardinality({u \in C : u < v})
SubGraph(g, C) ==
    [n |-> Cardinality(C),
     edges |-> {<<IndexIn(C, e[1]), IndexIn(C, e[2])>> :
                    e \in {d \in g.edges : d[1] \in C}}]

\* C19: disjoint components are ranked independently: every node of an
\* acyclic graph has the rank it has when its component (any set of nodes
\* closed under edges) is laid out alone; the chains A->B and C->D get the
\* ranks A:0, B:1, C:0, D:1, and A and C, sharing rank 0, are returned with
\* different within-rank coordinates.
C19_ComponentsRankedIndependently ==
    /\ (AssignLayersReturned /\ IsAcyclic(graph)) =>
           \A C \in ClosedNodeSets(graph) :
               LET alone == assign_layers(SubGraph(graph, C))
               IN  \A v \in C : node_ranks[v] = alone[IndexIn(C, v)]
    /\ (AssignLayersReturned /\ graph = TwoChains) =>
           node_ranks = (0 :> 0 @@ 1 :> 1 @@ 2 :> 0 @@ 3 :> 1)
    /\ (pc = "done" /\ graph = TwoChains) => WithinRank(0) # WithinRank(2)

\* The two chains have been laid out, and both sources are in rank 0.
C19_Witness ==
    /\ pc = "done"
    /\ graph = TwoChains
    /\ 0 \in DOMAIN nodes_by_rank
    /\ Contains(nodes_by_rank[0], 0)
    /\ Contains(nodes_by_rank[0], 2)

\* C20: the barycenter of a node at rank r is computed from neighbours in
\* the adjacent rank only (r-1 in the top-down pass, r+1 in the bottom-up
\* pass): a neighbour more than one rank away adds nothing to it.
C20_AdjacentRankNeighboursOnly ==
    pc = "reorder" =>
        LET rank == RankAt(iter, rank_idx, MaxRank(nodes_by_rank))
        IN  (rank \in DOMAIN nodes_by_rank /\ Len(nodes_by_rank[rank]) > 1) =>
                \A i \in 1 .. Len(nodes_by_rank[rank]) :
                    \A c \in CountedNodes(graph, node_ranks, nodes_by_rank,
                                          nodes_by_rank[rank][i], iter) :
                        node_ranks[c] = IF iter = 0 THEN rank - 1 ELSE rank + 1

\* ------------------------------- sugiyama.rs: build_supply_chain_layout
\* The largest number of nodes and of edges passed in, and the largest step
\* of the library's position grid.
MaxRouteNodes == 2
MaxRouteEdges == 1
MaxCoord == 1

\* Coordinates are kept in eighths of a unit, which holds the products with
\* both scales and the halves of their sums exactly.
EighthsPerUnit == 8
\* Lines 165-166: x_scale = 1.5 and y_scale = 0.75, in eighths.
x_scale == 12
y_scale == 6
\* Line 613: the distance at which the curve factor would reach 1.
CurveDistance == 500

\* Lines 43-82: a TechNode (id, x, y) as create_full_supply_chain builds it
\* (lines 467-468: x and y None), ids 1 .. n; a TechEdge (source, target,
\* points, curve_factor) whose ids may name no node (id MaxRouteNodes + 1
\* never does).
NodeInputs ==
    {[i \in 1 .. n |-> [id |-> i, x |-> None, y |-> None]] :
         n \in 0 .. MaxRouteNodes}
EdgeIds == 1 .. (MaxRouteNodes + 1)
TechEdges ==
    {[source |-> a, target |-> b, points |-> None, curve_factor |-> None] :
         a \in EdgeIds, b \in EdgeIds}
EdgeInputs == UNION {[1 .. m -> TechEdges] : m \in 0 .. MaxRouteEdges}
Orientations == {"LeftRight", "TopDown"}

RouteInit ==
    /\ LayoutIdle
    /\ BorderIdle
    /\ tech_nodes \in NodeInputs
    /\ tech_edges \in EdgeInputs
    /\ orientation \in Orientations
    /\ supply_graph = {}
    /\ updated_nodes = <<>>
    /\ updated_edges = <<>>
    /\ route_pc = "assemble"

\* Lines 524-530: node id -> NodeIndex, the index the node was added at.
node_indices(ns) ==
    [id \in {ns[i].id : i \in DOMAIN ns} |->
        Max({i \in DOMAIN ns : ns[i].id = id})]

\* Lines 557-561: node id -> position in the nodes array.
node_positions(ns) ==
    [id \in {ns[i].id : i \in DOMAIN ns} |->
        Max({i \in DOMAIN ns : ns[i].id = id})]

\* Lines 532-540: the edges added to the graph: those whose source and
\* target are both found in node_indices; the others are passed over.
GraphEdges(ns, es) ==
    LET idx == node_indices(ns)
    IN  {<<idx[es[i].source], idx[es[i].target]>> :
             i \in {j \in DOMAIN es : /\ es[j].source \in DOMAIN idx
                                      /\ es[j].target \in DOMAIN idx}}

\* Lines 521-540.
AssembleGraph ==
    /\ route_pc = "assemble"
    /\ supply_graph' = GraphEdges(tech_nodes, tech_edges)
    /\ route_pc' = "layout"
    /\ UNCHANGED <<tech_nodes, tech_edges, orientation, updated_nodes,
                   updated_edges>>
    /\ UNCHANGED <<layout_vars, border_vars>>

\* Lines 542-563, rust-sugiyama: from_graph(..).build() returns one layout
\* per weakly connected component, each a list of (node, (x, y)).
Linked(g, a, b) == <<a, b>> \in g \/ <<b, a>> \in g
RECURSIVE ComponentOf(_, _, _)
ComponentOf(g, ns, S) ==
    LET T == S \cup {b \in ns : \E a \in S : Linked(g, a, b)}
    IN  IF T = S THEN S ELSE ComponentOf(g, ns, T)
Components(g, ns) == {ComponentOf(g, ns, {v}) : v \in ns}

\* The positions the library hands out: grid points, no two nodes of a
\* layout on the same one.
LibPositions ==
    {<<40 * cx, 200 * cy>> : cx \in 0 .. MaxCoord, cy \in 0 .. MaxCoord}
Placements(comp) ==
    {pl \in [comp -> LibPositions] :
         \A a \in comp, b \in comp : a # b => pl[a] # pl[b]}

\* Lines 573-585: the coordinates of a node the layout places at pos.
ScaledNode(o, node, pos) ==
    IF o = "LeftRight"
    THEN [node EXCEPT !.x = Some((-pos[2]) * x_scale),
                      !.y = Some(pos[1] * y_scale)]
    ELSE [node EXCEPT !.x = Some(pos[1] * x_scale),
                      !.y = Some(pos[2] * y_scale)]

\* Lines 565-587: built_layouts.first() applied to updated_nodes.
ApplyCoordinates(o, ns, comp, place) ==
    [i \in DOMAIN ns |->
        IF i \in comp /\ ns[i].id \in DOMAIN node_positions(ns)
        THEN ScaledNode(o, ns[i], place[i])
        ELSE ns[i]]

\* Lines 542-587: the library's run and the coordinates of its first layout;
\* without a first layout (no node) the function returns its inputs (line
\* 620).
RunLayout ==
    /\ route_pc = "layout"
    /\ IF tech_nodes = <<>>
       THEN /\ updated_nodes' = tech_nodes
            /\ route_pc' = "done"
       ELSE /\ \E comp \in Components(supply_graph, DOMAIN tech_nodes) :
                   \E place \in Placements(comp) :
                       updated_nodes' =
                           ApplyCoordinates(orientation, tech_nodes, comp, place)
            /\ route_pc' = "route"
    /\ updated_edges' = tech_edges
    /\ UNCHANGED <<tech_nodes, tech_edges, orientation, supply_graph>>
    /\ UNCHANGED <<layout_vars, border_vars>>

\* The path of two points, the control point left out.
RoutePointsStraight(sx, sy, tx, ty) == <<<<sx, sy>>, <<tx, ty>>>>

\* Lines 598-606: start point, control point, end point.
RoutePoints(sx, sy, tx, ty) ==
    <<<<sx, sy>>, <<(sx + tx) \div 2, (sy + ty) \div 2>>, <<tx, ty>>>>

\* Line 612 without its square root: the square of the distance.
DistanceSq(sx, sy, tx, ty) == (tx - sx) ^ 2 + (ty - sy) ^ 2

\* 0.1 and 0.5 (line 613) as the squares of the distances, in eighths, that
\* give them.
MinCurveSq == ((CurveDistance * EighthsPerUnit) \div 10) ^ 2
MaxCurveSq == ((CurveDistance * EighthsPerUnit) \div 2) ^ 2

\* The factor capped at 0.5 but not raised to 0.1.
CurveFactorNoFloor(dist_sq) == Min({dist_sq, MaxCurveSq})

\* Line 613: (distance / 500.0).min(0.5).max(0.1), kept as the square of
\* the distance in eighths that the factor stands for:
\* (curve_factor * 500 * 8) ^ 2.
CurveFactor(dist_sq) == Max({Min({dist_sq, MaxCurveSq}), MinCurveSq})

\* Lines 590-616: the body of `for edge in &mut updated_edges`.
RouteEdge(ns, edge) ==
    LET pos == node_positions(ns)
    IN  IF edge.source \in DOMAIN pos /\ edge.target \in DOMAIN pos
        THEN LET source_node == ns[pos[edge.source]]
                 target_node == ns[pos[edge.target]]
                 sx == Unwrap(source_node.x)
                 sy == Unwrap(source_node.y)
                 tx == Unwrap(target_node.x)
                 ty == Unwrap(target_node.y)
             IN  IF /\ source_node.x # None
                    /\ source_node.y # None
                    /\ target_node.x # None
                    /\ target_node.y # None
                 THEN [edge EXCEPT
                          !.points = Some(RoutePoints(sx, sy, tx, ty)),
                          !.curve_factor =
                              Some(CurveFactor(DistanceSq(sx, sy, tx, ty)))]
                 ELSE edge
        ELSE edge

\* Lines 589-620: the routing loop and the return.
RouteEdges ==
    /\ route_pc = "route"
    /\ updated_edges' =
           [i \in DOMAIN updated_edges |->
               RouteEdge(updated_nodes, updated_edges[i])]
    /\ route_pc' = "done"
    /\ UNCHANGED <<tech_nodes, tech_edges, orientation, supply_graph,
                   updated_nodes>>
    /\ UNCHANGED <<layout_vars, border_vars>>

NextRoute ==
    \/ AssembleGraph
    \/ RunLayout
    \/ RouteEdges

SpecRoute == RouteInit /\ [][NextRoute]_vars

\* The edge's two ids name nodes, and both nodes have coordinates.
EndpointsPlaced(ns, edge) ==
    LET pos == node_positions(ns)
    IN  /\ edge.source \in DOMAIN pos
        /\ edge.target \in DOMAIN pos
        /\ ns[pos[edge.source]].x # None
        /\ ns[pos[edge.source]].y # None
        /\ ns[pos[edge.target]].x # None
        /\ ns[pos[edge.target]].y # None

\* The centre of the node of the given id.
Centre(ns, id) ==
    LET node == ns[node_positions(ns)[id]]
    IN  <<Unwrap(node.x), Unwrap(node.y)>>

\* C13: every edge whose two endpoints have coordinates is returned with
\* exactly three points: the source's centre, the midpoint of the two
\* centres, the target's centre (the stored endpoints are the centres, not
\* points on the nodes' borders).
C13_ThreePointPath ==
    route_pc = "done" =>
        \A i \in DOMAIN updated_edges :
            LET edge == updated_edges[i]
            IN  EndpointsPlaced(updated_nodes, edge) =>
                    /\ edge.points # None
                    /\ LET points == Unwrap(edge.points)
                           source == Centre(updated_nodes, edge.source)
                           target == Centre(updated_nodes, edge.target)
                       IN  /\ Len(points) = 3
                           /\ points[1] = source
                           /\ points[3] = target
                           /\ 2 * points[2][1] = source[1] + target[1]
                           /\ 2 * points[2][2] = source[2] + target[2]

\* An edge between two nodes at different places has been routed.
C13_Witness ==
    /\ route_pc = "done"
    /\ \E i \in DOMAIN updated_edges :
           /\ EndpointsPlaced(updated_nodes, updated_edges[i])
           /\ Centre(updated_nodes, updated_edges[i].source)
                  # Centre(updated_nodes, updated_edges[i].target)

\* The square of the distance between the centres of a routed edge's nodes.
CentreDistanceSq(ns, edge) ==
    LET source == Centre(ns, edge.source)
        target == Centre(ns, edge.target)
    IN  DistanceSq(source[1], source[2], target[1], target[2])

\* The stored form of the factor tenths / 10.
FactorOfTenths(tenths) ==
    ((tenths * CurveDistance * EighthsPerUnit) \div 10) ^ 2

\* C14: the curvature factor of a routed edge is its distance / 500 clamped
\* to [0.1, 0.5]: 0.1 up to distance 50, 0.5 from distance 250 on, and
\* distance / 500 in between.
C14_CurveFactorClamped ==
    route_pc = "done" =>
        \A i \in DOMAIN updated_edges :
            LET edge == updated_edges[i]
            IN  EndpointsPlaced(updated_nodes, edge) =>
                    /\ edge.curve_factor # None
                    /\ LET dist_sq == CentreDistanceSq(updated_nodes, edge)
                           factor == Unwrap(edge.curve_factor)
                           low == (50 * EighthsPerUnit) ^ 2
                           high == (250 * EighthsPerUnit) ^ 2
                       IN  /\ dist_sq <= low => factor = FactorOfTenths(1)
                           /\ dist_sq >= high => factor = FactorOfTenths(5)
                           /\ (low < dist_sq /\ dist_sq < high) =>
                                  factor = dist_sq

\* An edge between two nodes less than 50 apart, but apart, has been routed.
C14_Witness ==
    /\ route_pc = "done"
    /\ \E i \in DOMAIN updated_edges :
           /\ EndpointsPlaced(updated_nodes, updated_edges[i])
           /\ CentreDistanceSq(updated_nodes, updated_edges[i]) > 0
           /\ CentreDistanceSq(updated_nodes, updated_edges[i])
                  < (50 * EighthsPerUnit) ^ 2

\* C18: an edge whose source or target id names no node is rejected: the
\* layout is not returned with such an edge passed over.
C18_DanglingEdgeRejected ==
    route_pc = "done" =>
        \A i \in DOMAIN tech_edges :
            /\ tech_edges[i].source \in DOMAIN node_positions(tech_nodes)
            /\ tech_edges[i].target \in DOMAIN node_positions(tech_nodes)

\* ---------------------- sugiyama.rs: calculate_node_border_intersection
\* The largest coordinate of a line end, and the largest half of a node's
\* width or height.
MaxBorderCoord == 3
MaxHalfSize == 2

\* The arguments: a node centred at (0, 0) or (1, 0), of positive even
\* width and height (lines 465-466: 200 by 165), and the two ends of a line.
BorderInputs ==
    [node_x : {0, 1}, node_y : {0},
     node_width : {2 * h : h \in 1 .. MaxHalfSize},
     node_height : {2 * h : h \in 1 .. MaxHalfSize},
     line_x1 : (-MaxBorderCoord) .. MaxBorderCoord,
     line_y1 : (-MaxBorderCoord) .. MaxBorderCoord,
     line_x2 : (-MaxBorderCoord) .. MaxBorderCoord,
     line_y2 : (-MaxBorderCoord) .. MaxBorderCoord]

BorderInit ==
    /\ LayoutIdle
    /\ RouteIdle
    /\ border_args \in BorderInputs
    /\ border_point = None
    /\ border_pc = "call"

\* An f64 that is a quotient of integers: <<numerator, denominator>> in
\* lowest terms, the denominator positive.
RECURSIVE GCD(_, _)
GCD(a, b) == IF b = 0 THEN a ELSE GCD(b, a % b)
Abs(a) == IF a < 0 THEN -a ELSE a
Frac(num, den) ==
    LET g == GCD(Abs(num), Abs(den))
    IN  IF den < 0 THEN <<(-num) \div g, (-den) \div g>>
        ELSE <<num \div g, den \div g>>
\* f64::INFINITY and f64::NAN.
INFINITY == <<1, 0>>
NAN == <<0, 0>>
\* a <= b and a < b as f64 compares them: false when either is NaN.
FracLeq(a, b) ==
    /\ a # NAN /\ b # NAN
    /\ IF a = INFINITY THEN b = INFINITY
       ELSE b = INFINITY \/ a[1] * b[2] <= b[1] * a[2]
FracLess(a, b) == FracLeq(a, b) /\ a # b
\* start + t * d.
Along(start, t, d) == Frac(start * t[2] + t[1] * d, t[2])

\* Lines 1001-1004.
Left(a) == a.node_x - a.node_width \div 2
Right(a) == a.node_x + a.node_width \div 2
Top(a) == a.node_y - a.node_height \div 2
Bottom(a) == a.node_y + a.node_height \div 2

\* The parameter taken from the side towards the start.
SideParameterBackwards(side, start, d) ==
    IF d # 0 THEN Frac(start - side, d) ELSE INFINITY

\* Lines 1007-1030: the parameter at which the line reaches the side at
\* `side` along the axis it moves by d on, starting from `start`.
SideParameter(side, start, d) ==
    IF d # 0 THEN Frac(side - start, d) ELSE INFINITY

\* Any finite parameter taken, on the segment or beyond its ends.
InUnitOrBeyond(t) == t # INFINITY /\ t # NAN

\* Lines 1035, 1042, 1049, 1056: t >= 0.0 && t <= 1.0.
InUnit(t) == FracLeq(Frac(0, 1), t) /\ FracLeq(t, Frac(1, 1))

\* Lines 1035-1061: the intersections (t, x, y) pushed, in the order left,
\* right, top, bottom.
ValidIntersections(a) ==
    LET dx == a.line_x2 - a.line_x1
        dy == a.line_y2 - a.line_y1
        t_left == SideParameter(Left(a), a.line_x1, dx)
        t_right == SideParameter(Right(a), a.line_x1, dx)
        t_top == SideParameter(Top(a), a.line_y1, dy)
        t_bottom == SideParameter(Bottom(a), a.line_y1, dy)
        Within(v, lo, hi) == FracLeq(Frac(lo, 1), v) /\ FracLeq(v, Frac(hi, 1))
        OnVertical(t, side) ==
            IF InUnit(t) /\ Within(Along(a.line_y1, t, dy), Top(a), Bottom(a))
            THEN <<[t |-> t, x |-> Frac(side, 1), y |-> Along(a.line_y1, t, dy)]>>
            ELSE <<>>
        OnHorizontal(t, side) ==
            IF InUnit(t) /\ Within(Along(a.line_x1, t, dx), Left(a), Right(a))
            THEN <<[t |-> t, x |-> Along(a.line_x1, t, dx), y |-> Frac(side, 1)]>>
            ELSE <<>>
    IN  OnVertical(t_left, Left(a)) \o OnVertical(t_right, Right(a))
        \o OnHorizontal(t_top, Top(a)) \o OnHorizontal(t_bottom, Bottom(a))

\* The list left in the order it was pushed in.
SortByTNot(list) == list

\* Line 1064: sort_by on t, a stable sort: an item goes behind every item
\* whose t is not greater.
RECURSIVE InsertByT(_, _)
InsertByT(sorted, item) ==
    IF sorted = <<>> THEN <<item>>
    ELSE IF FracLess(item.t, Head(sorted).t) THEN <<item>> \o sorted
    ELSE <<Head(sorted)>> \o InsertByT(Tail(sorted), item)
RECURSIVE SortByTFrom(_, _)
SortByTFrom(sorted, rest) ==
    IF rest = <<>> THEN sorted
    ELSE SortByTFrom(InsertByT(sorted, Head(rest)), Tail(rest))
SortByT(list) == SortByTFrom(<<>>, list)

\* Line 1064: partial_cmp(..).unwrap() panics when it compares a NaN.
SortPanics(list) ==
    Len(list) > 1 /\ \E i \in 1 .. Len(list) : list[i].t = NAN

\* Lines 990-1073: the point returned, (x, y).
calculate_node_border_intersection(a) ==
    LET valid_intersections == SortByT(ValidIntersections(a))
    IN  IF valid_intersections = <<>>
        THEN <<Frac(a.node_x, 1), Frac(a.node_y, 1)>>
        ELSE <<valid_intersections[1].x, valid_intersections[1].y>>

\* One call of the function.
CalculateIntersection ==
    /\ border_pc = "call"
    /\ IF SortPanics(ValidIntersections(border_args))
       THEN /\ border_pc' = "panicked"
            /\ UNCHANGED border_point
       ELSE /\ border_pc' = "returned"
            /\ border_point' =
                   Some(calculate_node_border_intersection(border_args))
    /\ UNCHANGED border_args
    /\ UNCHANGED <<layout_vars, route_vars>>

NextBorder == CalculateIntersection

SpecBorder == BorderInit /\ [][NextBorder]_vars

\* The function has returned; its result and the node's centre.
BorderReturned == border_pc = "returned"
BorderResult == Unwrap(border_point)
CentrePoint(a) == <<Frac(a.node_x, 1), Frac(a.node_y, 1)>>

\* (x, y) lies off the node's rectangle, or within it and off its border.
StrictlyOutside(a, x, y) ==
    x < Left(a) \/ x > Right(a) \/ y < Top(a) \/ y > Bottom(a)
StrictlyInside(a, x, y) ==
    Left(a) < x /\ x < Right(a) /\ Top(a) < y /\ y < Bottom(a)

\* The segment and the closed rectangle share a point: their bounding boxes
\* overlap and the rectangle's corners are not all strictly on one side of
\* the segment's line.
SegmentMeetsRect(a) ==
    LET dx == a.line_x2 - a.line_x1
        dy == a.line_y2 - a.line_y1
        side(cx, cy) == dx * (cy - a.line_y1) - dy * (cx - a.line_x1)
        corners == {side(cx, cy) : cx \in {Left(a), Right(a)},
                                   cy \in {Top(a), Bottom(a)}}
    IN  /\ Max({a.line_x1, a.line_x2}) >= Left(a)
        /\ Min({a.line_x1, a.line_x2}) <= Right(a)
        /\ Max({a.line_y1, a.line_y2}) >= Top(a)
        /\ Min({a.line_y1, a.line_y2}) <= Bottom(a)
        /\ ~(\A c \in corners : c > 0)
        /\ ~(\A c \in corners : c < 0)

\* The point lies on one of the rectangle's four sides, within its span.
OnBorder(a, point) ==
    LET Within(v, lo, hi) == FracLeq(Frac(lo, 1), v) /\ FracLeq(v, Frac(hi, 1))
    IN  \/ /\ point[1] \in {Frac(Left(a), 1), Frac(Right(a), 1)}
           /\ Within(point[2], Top(a), Bottom(a))
        \/ /\ point[2] \in {Frac(Top(a), 1), Frac(Bottom(a), 1)}
           /\ Within(point[1], Left(a), Right(a))

\* C15: for a segment whose first end lies strictly outside the rectangle
\* and which crosses into it, the point returned lies on one of the four
\* sides within that side's span, and is not the centre fallback.
C15_EntryPointOnBorder ==
    (/\ BorderReturned
     /\ StrictlyOutside(border_args, border_args.line_x1, border_args.line_y1)
     /\ SegmentMeetsRect(border_args)) =>
        /\ OnBorder(border_args, BorderResult)
        /\ ValidIntersections(border_args) # <<>>
        /\ BorderResult # CentrePoint(border_args)

\* A segment from outside to strictly inside, slanted, has been answered.
C15_Witness ==
    /\ BorderReturned
    /\ StrictlyOutside(border_args, border_args.line_x1, border_args.line_y1)
    /\ StrictlyInside(border_args, border_args.line_x2, border_args.line_y2)
    /\ border_args.line_x1 # border_args.line_x2
    /\ border_args.line_y1 # border_args.line_y2
    /\ OnBorder(border_args, BorderResult)

\* C16: among the valid intersections (t in [0, 1], the other coordinate
\* within the side's span) the one of smallest t is returned.
C16_SmallestParameter ==
    (BorderReturned /\ ValidIntersections(border_args) # <<>>) =>
        LET valid == ValidIntersections(border_args)
        IN  \E i \in 1 .. Len(valid) :
                /\ BorderResult = <<valid[i].x, valid[i].y>>
                /\ \A j \in 1 .. Len(valid) : FracLeq(valid[i].t, valid[j].t)

\* The intersection pushed first is not the one of smallest t.
C16_Witness ==
    /\ BorderReturned
    /\ LET valid == ValidIntersections(border_args)
       IN  /\ Len(valid) > 1
           /\ \E j \in 2 .. Len(valid) : FracLess(valid[j].t, valid[1].t)

\* C17: the centre is returned exactly when no side yields a valid
\* intersection, as for a segment of length zero, one that misses the
\* rectangle (parallel to a side or not), or one entirely inside it; the
\* function never fails.
C17_CentreFallback ==
    /\ border_pc # "panicked"
    /\ BorderReturned =>
           LET a == border_args
               centre == CentrePoint(a)
           IN  /\ BorderResult = centre <=> ValidIntersections(a) = <<>>
               /\ (a.line_x1 = a.line_x2 /\ a.line_y1 = a.line_y2) =>
                      BorderResult = centre
               /\ ~SegmentMeetsRect(a) => BorderResult = centre
               /\ (/\ StrictlyInside(a, a.line_x1, a.line_y1)
                   /\ StrictlyInside(a, a.line_x2, a.line_y2)) =>
                      BorderResult = centre

\* A segment parallel to a side, pointing past the rectangle, got the centre.
C17_Witness ==
    /\ BorderReturned
    /\ border_args.line_x1 = border_args.line_x2
    /\ border_args.line_y1 # border_args.line_y2
    /\ ~SegmentMeetsRect(border_args)
    /\ BorderResult = CentrePoint(border_args)

\* ------------------------------------------------------------------------
\* The rank the orderer is about to reorder, and whether it holds more than
\* one node (line 119).
CurrentRank == RankAt(iter, rank_idx, MaxRank(nodes_by_rank))
SortsCurrentRank ==
    /\ pc = "reorder"
    /\ CurrentRank \in DOMAIN nodes_by_rank
    /\ Len(nodes_by_rank[CurrentRank]) > 1

\* The order SortByBarycenter gives the nodes of `rank` when every position
\* is read off `snapshot`.
OrderFrom(snapshot, rank, it) ==
    LET sorted == SortByBarycenter(
                      [i \in 1 .. Len(snapshot[rank]) |->
                          <<snapshot[rank][i],
                            Barycenter(graph, node_ranks, snapshot,
                                       snapshot[rank], snapshot[rank][i], it)>>])
    IN  [i \in 1 .. Len(sorted) |-> sorted[i][1]]

C22_SnapshotBeforeSweep ==
    [][(SortsCurrentRank /\ iter = 0) =>
           nodes_by_rank'[CurrentRank] = OrderFrom(grouped, CurrentRank, 0)
      ]_vars

\* The node has no neighbour that counts for its barycenter in this pass.
Unlinked(node) ==
    CountedNodes(graph, node_ranks, nodes_by_rank, node, iter) = {}

\* C23: a node without qualifying neighbour in the direction of the pass
\* gets its own current index in its rank as barycenter, not 0; a rank in
\* which no node has a qualifying neighbour keeps its order in that pass.
C23_OwnIndexFallback ==
    [][SortsCurrentRank =>
        LET old == nodes_by_rank[CurrentRank]
        IN  /\ \A i \in 1 .. Len(old) :
                   Unlinked(old[i]) =>
                       Barycenter(graph, node_ranks, nodes_by_rank, old,
                                  old[i], iter) = <<i - 1, 1>>
            /\ (\A i \in 1 .. Len(old) : Unlinked(old[i])) =>
                   nodes_by_rank'[CurrentRank] = old
      ]_vars

\* The top-down pass is at rank 0, which holds three nodes, none of them
\* with a predecessor.
C23_Witness ==
    /\ SortsCurrentRank
    /\ iter = 0
    /\ Len(nodes_by_rank[CurrentRank]) = 3
    /\ \A i \in 1 .. 3 : Unlinked(nodes_by_rank[CurrentRank][i])

\* The edges from a rank to the next one, and the number of pairs of them
\* that cross in the given ordering: the sources in one order, the targets
\* in the other.
AdjacentEdges(g, ranks) ==
    {e \in g.edges : /\ e[1] \in DOMAIN ranks
                     /\ e[2] \in DOMAIN ranks
                     /\ ranks[e[2]] = ranks[e[1]] + 1}
Crossings(g, ranks, layers) ==
    LET pos(node) == Position(layers[ranks[node]], node)
    IN  Cardinality(
            {pair \in AdjacentEdges(g, ranks) \X AdjacentEdges(g, ranks) :
                 /\ ranks[pair[1][1]] = ranks[pair[2][1]]
                 /\ pos(pair[1][1]) < pos(pair[2][1])
                 /\ pos(pair[1][2]) > pos(pair[2][2])})

\* C24: for every acyclic graph and every initial order within the ranks,
\* the ordering order_nodes_within_layers returns has no more crossings
\* between adjacent ranks than the initial ordering.
C24_CrossingsNeverIncrease ==
    (pc = "assign_coordinates" /\ IsAcyclic(graph)) =>
        Crossings(graph, node_ranks, nodes_by_rank)
            <= Crossings(graph, node_ranks, grouped)

\* C25: for acyclic input, whenever a node is ranked all its predecessors
\* hold a rank already (the default 0 of an unranked predecessor is never
\* taken), every node has a rank other than usize::MAX when the topological
\* pass ends, and the guard on the sentinel changes no rank.
C25_SentinelGuardDead ==
    [][(pc = "topo" /\ IsAcyclic(graph)) =>
        /\ \A node \in ordered' \ ordered :
               Incoming(graph, node) \subseteq DOMAIN node_ranks
        /\ pc' = "order_nodes_within_layers" =>
               /\ DOMAIN node_ranks = NodeIndices(graph)
               /\ \A m \in DOMAIN node_ranks : node_ranks[m] # USIZE_MAX
               /\ PatchSentinel(node_ranks) = node_ranks
      ]_vars

\* The diamond's ranks have been returned: its sink, with two predecessors
\* at the same rank, was ranked after both.
C25_Witness ==
    /\ pc = "order_nodes_within_layers"
    /\ graph = Diamond
    /\ node_ranks[3] = 2

\* C26: an edge whose source and target centres coincide is routed without
\* failure and gets the zero-curvature default, curvature factor 0.
C26_CoincidentCentresZeroCurvature ==
    route_pc = "done" =>
        \A i \in DOMAIN updated_edges :
            (/\ EndpointsPlaced(updated_nodes, updated_edges[i])
             /\ CentreDistanceSq(updated_nodes, updated_edges[i]) = 0) =>
                updated_edges[i].curve_factor = Some(0)

\* C27: for every input graph, acyclic or not, the pipeline terminates, and
\* the orderer makes exactly two sweeps, the first over the ranks
\* 0 .. max_rank ascending, the second over max_rank .. 0 descending, each
\* rank visited once per sweep, and then stops.
C27_TerminatesAfterTwoSweeps ==
    /\ <>(pc = "done")
    /\ [][pc = "reorder" =>
           LET max_rank == MaxRank(nodes_by_rank)
               visited == IF iter = 0 THEN rank_idx ELSE max_rank - rank_idx
           IN  /\ iter \in {0, 1}
               /\ rank_idx \in 0 .. max_rank
               /\ \A q \in DOMAIN nodes_by_rank \ {visited} :
                      nodes_by_rank'[q] = nodes_by_rank[q]
               /\ rank_idx < max_rank =>
                      /\ pc' = "reorder"
                      /\ iter' = iter
                      /\ rank_idx' = rank_idx + 1
               /\ (rank_idx = max_rank /\ iter = 0) =>
                      /\ pc' = "reorder"
                      /\ iter' = 1
                      /\ rank_idx' = 0
               /\ (rank_idx = max_rank /\ iter = 1) =>
                      pc' = "assign_coordinates"
         ]_vars

\* The layout of a graph with a cycle has been returned.
C27_Witness ==
    /\ pc = "done"
    /\ ~IsAcyclic(graph)
    /\ DOMAIN layout # {}

\* C28: for an acyclic graph, every node of rank r > 0 has a predecessor of
\* rank exactly r - 1, so the layers are the ranks 0 .. max_rank with none of
\* them empty, and every rank the orderer visits has a layer.
C28_RanksContiguous ==
    IsAcyclic(graph) =>
        /\ AssignLayersReturned =>
               \A node \in DOMAIN node_ranks :
                   node_ranks[node] > 0 =>
                       \E pred \in Incoming(graph, node) :
                           /\ pred \in DOMAIN node_ranks
                           /\ node_ranks[pred] = node_ranks[node] - 1
        /\ LayersBuilt =>
               /\ DOMAIN nodes_by_rank = 0 .. MaxRank(nodes_by_rank)
               /\ \A r \in DOMAIN nodes_by_rank : nodes_by_rank[r] # <<>>
        /\ pc = "reorder" => CurrentRank \in DOMAIN nodes_by_rank

\* C28, for a graph with at least one node: every node of rank r > 0 has a
\* predecessor of rank exactly r - 1, the layers are the ranks 0 .. max_rank
\* with none of them empty, and every rank the orderer visits has a layer.
\* Without a node there is no layer at all, and max_rank falls back to 0
\* (line 102), so the orderer visits rank 0 and finds nothing there.
C28_RanksContiguousNonEmpty ==
    (IsAcyclic(graph) /\ graph.n > 0) =>
        /\ AssignLayersReturned =>
               \A node \in DOMAIN node_ranks :
                   node_ranks[node] > 0 =>
                       \E pred \in Incoming(graph, node) :
                           /\ pred \in DOMAIN node_ranks
                           /\ node_ranks[pred] = node_ranks[node] - 1
        /\ LayersBuilt =>
               /\ DOMAIN nodes_by_rank = 0 .. MaxRank(nodes_by_rank)
               /\ \A r \in DOMAIN nodes_by_rank : nodes_by_rank[r] # <<>>
        /\ pc = "reorder" => CurrentRank \in DOMAIN nodes_by_rank

\* The orderer is at the last rank of an acyclic graph with three ranks, one
\* of whose nodes has predecessors at two different ranks.
C28_Witness ==
    /\ pc = "reorder"
    /\ graph = Shortcut
    /\ CurrentRank = 2
    /\ DOMAIN nodes_by_rank = 0 .. 2
====
